---- MODULE Spec2Model ----
(***************************************************************************)
(* Model of build.py, the build/install/test dispatcher of the mcsrvstatus *)
(* library.                                                                *)
(*                                                                         *)
(* The working directory is a tree of paths (sequences of names relative   *)
(* to the current directory), each a directory or a regular file.  The     *)
(* project-root marker setup.py is kept as the separate boolean `marker`   *)
(* (no operation of the script creates or removes it).  External commands  *)
(* are opaque: each invocation either succeeds or raises                   *)
(* CalledProcessError, chosen nondeterministically; their effects on the   *)
(* working directory are not modelled.  The directory a process starts in  *)
(* is built up path by path before main() takes its first step.            *)
(*                                                                         *)
(* Python's sys.argv[0] is argv[1] here (TLA+ sequences start at 1), so    *)
(* `len(sys.argv) > 1` is Len(argv) > 1 and sys.argv[1] is argv[2].        *)
(***************************************************************************)
EXTENDS Integers, Sequences, FiniteSets, TLC

VARIABLES
    fs,        \* working directory: function from path to "dir" / "file"
    marker,    \* os.path.exists('setup.py')
    argv,      \* sys.argv
    hasRequests, hasAiohttp,  \* whether `import requests` / `import aiohttp` succeeds
    pc,        \* position of the process inside main()
    phases,    \* phase functions called so far, in order, each with
               \* whether it returned a true-ish / normal result
    cmds,      \* external commands run so far, in order, with their outcome
    out,       \* lines printed so far by main() (one token per print)
    exitCode,  \* process exit status, meaningful once pc = "done"
    cleanLog   \* one record per call of clean_build()

vars == <<fs, marker, argv, hasRequests, hasAiohttp, pc, phases, cmds, out,
          exitCode, cleanLog>>

----------------------------------------------------------------------------
(* Bounds *)

\* largest number of components of a path in the starting workspace
MaxDepth == 3
\* largest number of paths in the workspace the repeated clean starts from
MaxNodes == 4
\* largest number of paths in the workspace a dispatcher run starts from
MaxDispatchNodes == 3
\* number of successive clean_build() calls in the clean harness
MaxRuns == 2

----------------------------------------------------------------------------
(* The working directory *)

\* dirs_to_clean, in the order of the list
dirs_to_clean == <<"build", "dist", "mcsrvstatus.egg-info">>

\* the cache directory name compared against in the walk
PYCACHE == "__pycache__"

\* names a directory entry can have in the model: the four the script
\* looks for and one it does not
Names == {"build", "dist", "mcsrvstatus.egg-info", "__pycache__", "pkg"}

Kinds == {"dir", "file"}

EmptyFs == [p \in {} |-> "dir"]

IsPrefix(a, b) == Len(a) <= Len(b) /\ SubSeq(b, 1, Len(a)) = a

Parent(p) == SubSeq(p, 1, Len(p) - 1)

Last(p) == p[Len(p)]

\* os.path.exists(path)
Exists(f, p) == p \in DOMAIN f

\* path names a directory
IsDir(f, p) == p \in DOMAIN f /\ f[p] = "dir"

\* the tree without path p and everything beneath it
RemoveTree(f, p) == [q \in {r \in DOMAIN f : ~IsPrefix(p, r)} |-> f[q]]

\* the `dirs` list os.walk yields for `root`: its sub-directories
SubDirs(f, root) ==
    {p \in DOMAIN f : Len(p) = Len(root) + 1 /\ Parent(p) = root /\ f[p] = "dir"}

\* the paths that can be added to f: a new name directly under the current
\* directory or under one of its directories
NewPaths(f) ==
    { par \o <<n>> :
        par \in {<<>>} \cup {d \in DOMAIN f : f[d] = "dir" /\ Len(d) < MaxDepth},
        n \in Names } \ DOMAIN f

----------------------------------------------------------------------------
(* clean_build() *)

\* state threaded through clean_build: the tree, the paths removed by
\* shutil.rmtree so far, and whether an exception has escaped
CleanState(f) == [fs |-> f, calls |-> <<>>, raised |-> FALSE]

\* shutil.rmtree(p): removes the directory p and its contents; raises
\* NotADirectoryError, removing nothing, when p is not a directory
rmtree(st, p) ==
    IF IsDir(st.fs, p)
    THEN [st EXCEPT !.fs = RemoveTree(st.fs, p), !.calls = Append(st.calls, p)]
    ELSE [st EXCEPT !.raised = TRUE]

\* the loop over dirs_to_clean, from index i on
RECURSIVE CleanDirs(_, _)
CleanDirs(st, i) ==
    IF i > Len(dirs_to_clean) \/ st.raised THEN st
    ELSE IF Exists(st.fs, <<dirs_to_clean[i]>>)
         THEN CleanDirs(rmtree(st, <<dirs_to_clean[i]>>), i + 1)
         ELSE CleanDirs(st, i + 1)

\* the body of the os.walk loop for one `root`: every sub-directory named
\* __pycache__ is removed and taken out of `dirs`; the walk then descends
\* into the directories left in `dirs`
RECURSIVE Walk(_, _), WalkAll(_, _)
Walk(st, root) ==
    LET dirs == SubDirs(st.fs, root)
        hit  == {d \in dirs : Last(d) = PYCACHE}
        st1  == IF hit = {} THEN st ELSE rmtree(st, CHOOSE d \in hit : TRUE)
    IN  WalkAll(st1, dirs \ hit)

WalkAll(st, todo) ==
    IF todo = {} \/ st.raised THEN st
    ELSE LET d == CHOOSE x \in todo : TRUE
         IN  WalkAll(Walk(st, d), todo \ {d})

\* variant: only ./__pycache__ is looked for, the tree is not walked
clean_build_top_only(f) ==
    LET st == CleanDirs(CleanState(f), 1)
    IN  IF st.raised \/ ~IsDir(st.fs, <<PYCACHE>>) THEN st
        ELSE rmtree(st, <<PYCACHE>>)

clean_build(f) ==
    LET st == CleanDirs(CleanState(f), 1)
    IN  IF st.raised THEN st ELSE Walk(st, <<>>)

----------------------------------------------------------------------------
(* The phase functions that shell out *)

\* run_command(command): the outcome `ok` is the external program's; the
\* result carries the boolean returned and the invocation made
run_command(command, ok) == [ok |-> ok, cmds |-> <<[cmd |-> command, ok |-> ok]>>]

\* no external command run, returning `ok`
Returned(ok) == [ok |-> ok, cmds |-> <<>>]

\* result of running step b after step a has returned normally
Then(a, b) == [ok |-> b.ok, cmds |-> a.cmds \o b.cmds]

\* variant: the installer is run whether or not the import succeeded
EnsureLibrary_always(present, lib, ok) == run_command("pip install " \o lib, ok)

\* one try/except ImportError block of check_requirements: nothing to do
\* when the import succeeds, otherwise run the installer
EnsureLibrary(present, lib, ok) ==
    IF present THEN Returned(TRUE) ELSE run_command("pip install " \o lib, ok)

\* check_requirements(): o1, o2 are the outcomes of the two installer runs
check_requirements(hasReq, hasAio, o1, o2) ==
    LET first == EnsureLibrary(hasReq, "requests", o1)
    IN  IF ~first.ok THEN first
        ELSE LET second == Then(first, EnsureLibrary(hasAio, "aiohttp", o2))
             IN  IF ~second.ok THEN second
                 ELSE Then(second, Returned(TRUE))

\* variant: the wheel is built even when the source distribution failed
build_package_no_stop(o1, o2) ==
    LET wheel == Then(run_command("python setup.py sdist", o1),
                      run_command("python setup.py bdist_wheel", o2))
    IN  [wheel EXCEPT !.ok = o1 /\ o2]

\* build_package(): o1, o2 are the outcomes of sdist and bdist_wheel
build_package(o1, o2) ==
    LET sdist == run_command("python setup.py sdist", o1)
    IN  IF ~sdist.ok THEN sdist
        ELSE LET wheel == Then(sdist, run_command("python setup.py bdist_wheel", o2))
             IN  IF ~wheel.ok THEN wheel
                 ELSE Then(wheel, Returned(TRUE))

install_package(o) == run_command("pip install -e .", o)

run_tests(o) == run_command("python -m pytest tests/ -v", o)

----------------------------------------------------------------------------
(* main(): the dispatch *)

\* the command words main() compares against
Recognized == {"clean", "build", "install", "test", "all"}

\* len(sys.argv) > 1
HasCommand(av) == Len(av) > 1

\* variant: an unrecognized argument falls through to the default sequence
FirstPhase_fallthrough(av) ==
    IF HasCommand(av) /\ av[2] \in {"install", "test"} THEN "check" ELSE "clean"

\* the first phase function main() calls once the marker was found, or
\* "unknown" for the final else branch
FirstPhase(av) ==
    IF HasCommand(av)
    THEN CASE av[2] = "clean"   -> "clean"
           [] av[2] = "build"   -> "clean"
           [] av[2] = "install" -> "check"
           [] av[2] = "test"    -> "check"
           [] av[2] = "all"     -> "clean"
           [] OTHER             -> "unknown"
    ELSE "clean"

\* where main() goes after clean_build() has returned normally
AfterClean(av) ==
    IF HasCommand(av) /\ av[2] = "clean" THEN "done" ELSE "check"

\* variant: every command builds after the dependency check
AfterCheck_build(av, ok) == IF ~ok THEN "done" ELSE "build"

\* where main() goes after check_requirements() has returned ok
AfterCheck(av, ok) ==
    IF ~ok THEN "done"
    ELSE IF HasCommand(av) /\ av[2] = "install" THEN "install"
    ELSE IF HasCommand(av) /\ av[2] = "test" THEN "test"
    ELSE "build"

\* variant: the default sequence goes on to install like `all`
AfterBuild_install(av, ok) ==
    IF ~ok THEN "done"
    ELSE IF ~HasCommand(av) \/ av[2] = "all" THEN "install"
    ELSE "done"

\* variant: the closing messages do not depend on the build result
AfterBuild_guide(av, ok) ==
    IF ~HasCommand(av) THEN "guide"
    ELSE IF ok /\ av[2] = "all" THEN "install"
    ELSE "done"

\* where main() goes after build_package() has returned ok: the `build`
\* command ignores the result, `all` goes on to install, the default
\* sequence prints the closing messages
AfterBuild(av, ok) ==
    IF ~ok THEN "done"
    ELSE IF ~HasCommand(av) THEN "guide"
    ELSE IF av[2] = "all" THEN "install"
    ELSE "done"

\* where main() goes after install_package() has returned ok
AfterInstall(av, ok) ==
    IF ok /\ HasCommand(av) /\ av[2] = "all" THEN "test" ELSE "done"

\* variant: the marker is not checked
Entry_unchecked(m, av) == FirstPhase(av)

\* the top of main(): "exit1" when the marker is missing, otherwise the
\* branch the argument selects
Entry(m, av) == IF ~m THEN "exit1" ELSE FirstPhase(av)

\* the lines main() prints first
Banner == <<"Building mcsrvstatus library", "=====">>

\* the lines printed when the marker is missing
MarkerError ==
    <<"Error: setup.py file not found!",
      "Make sure you are in the project root directory.">>

\* the lines of the final else branch
UnknownCommand ==
    <<"Unknown command", "Available commands: clean, build, install, test, all">>

\* the lines printed at the end of a successful default build
Guidance ==
    <<"Build completed successfully!", "To install run:",
      "python build.py install", "To run tests:", "python build.py test">>

----------------------------------------------------------------------------
(* The process *)

\* argument vectors tried: no argument, each recognized command, two
\* unrecognized ones and one with a surplus argument
Args ==
    { <<"build.py">>, <<"build.py", "clean">>, <<"build.py", "build">>,
      <<"build.py", "install">>, <<"build.py", "test">>, <<"build.py", "all">>,
      <<"build.py", "deploy">>, <<"build.py", "">>,
      <<"build.py", "install", "test">> }

Called(name, ok) == [phase |-> name, ok |-> ok]

\* a freshly started process
Fresh ==
    /\ pc = "start"
    /\ phases = <<>>
    /\ cmds = <<>>
    /\ out = <<>>
    /\ exitCode = 0

Init ==
    /\ fs = EmptyFs
    /\ marker \in BOOLEAN
    /\ argv \in Args
    /\ hasRequests \in BOOLEAN
    /\ hasAiohttp \in BOOLEAN
    /\ cleanLog = <<>>
    /\ Fresh

\* the working directory as found by the process: before it has done
\* anything, files and directories appear in it (left by the user or by
\* earlier builds), up to `limit` paths
CreatePath(limit) ==
    /\ pc = "start"
    /\ cleanLog = <<>>
    /\ Cardinality(DOMAIN fs) < limit
    /\ \E p \in NewPaths(fs), k \in Kinds : fs' = fs @@ (p :> k)
    /\ UNCHANGED <<marker, argv, hasRequests, hasAiohttp, pc, phases, cmds, out,
                   exitCode, cleanLog>>

\* main() up to the first phase call
Main ==
    /\ pc = "start"
    /\ LET e == Entry(marker, argv)
       IN  /\ out' = out \o Banner \o
                     (CASE e = "exit1"   -> MarkerError
                        [] e = "unknown" -> UnknownCommand
                        [] OTHER         -> <<>>)
           /\ exitCode' = IF e = "exit1" THEN 1 ELSE 0
           /\ pc' = IF e \in {"exit1", "unknown"} THEN "done" ELSE e
    /\ UNCHANGED <<fs, marker, argv, hasRequests, hasAiohttp, phases, cmds, cleanLog>>

\* the call of clean_build(); an exception escaping it ends the process
\* with a traceback and status 1
CleanBuild ==
    /\ pc = "clean"
    /\ LET r == clean_build(fs)
       IN  /\ fs' = r.fs
           /\ cleanLog' = Append(cleanLog,
                  [before |-> fs, after |-> r.fs, calls |-> r.calls, raised |-> r.raised])
           /\ phases' = Append(phases, Called("clean", ~r.raised))
           /\ pc' = IF r.raised THEN "done" ELSE AfterClean(argv)
           /\ exitCode' = IF r.raised THEN 1 ELSE exitCode
    /\ UNCHANGED <<marker, argv, hasRequests, hasAiohttp, cmds, out>>

\* the call of check_requirements()
CheckRequirements ==
    /\ pc = "check"
    /\ \E o1 \in BOOLEAN, o2 \in BOOLEAN :
         LET r == check_requirements(hasRequests, hasAiohttp, o1, o2)
         IN  /\ cmds' = cmds \o r.cmds
             /\ phases' = Append(phases, Called("check", r.ok))
             /\ pc' = AfterCheck(argv, r.ok)
    /\ UNCHANGED <<fs, marker, argv, hasRequests, hasAiohttp, out, exitCode, cleanLog>>

\* the call of build_package() and, in the default sequence, the closing
\* messages
BuildPackage ==
    /\ pc = "build"
    /\ \E o1 \in BOOLEAN, o2 \in BOOLEAN :
         LET r == build_package(o1, o2)
             next == AfterBuild(argv, r.ok)
         IN  /\ cmds' = cmds \o r.cmds
             /\ phases' = Append(phases, Called("build", r.ok))
             /\ out' = IF next = "guide" THEN out \o Guidance ELSE out
             /\ pc' = IF next = "guide" THEN "done" ELSE next
    /\ UNCHANGED <<fs, marker, argv, hasRequests, hasAiohttp, exitCode, cleanLog>>

\* the call of install_package()
InstallPackage ==
    /\ pc = "install"
    /\ \E o \in BOOLEAN :
         LET r == install_package(o)
         IN  /\ cmds' = cmds \o r.cmds
             /\ phases' = Append(phases, Called("install", r.ok))
             /\ pc' = AfterInstall(argv, r.ok)
    /\ UNCHANGED <<fs, marker, argv, hasRequests, hasAiohttp, out, exitCode, cleanLog>>

\* the call of run_tests()
RunTests ==
    /\ pc = "test"
    /\ \E o \in BOOLEAN :
         LET r == run_tests(o)
         IN  /\ cmds' = cmds \o r.cmds
             /\ phases' = Append(phases, Called("test", r.ok))
             /\ pc' = "done"
    /\ UNCHANGED <<fs, marker, argv, hasRequests, hasAiohttp, out, exitCode, cleanLog>>

Next ==
    \/ CreatePath(MaxDispatchNodes)
    \/ Main
    \/ CleanBuild
    \/ CheckRequirements
    \/ BuildPackage
    \/ InstallPackage
    \/ RunTests

Spec == Init /\ [][Next]_vars

----------------------------------------------------------------------------
(* `build.py clean` run several times in succession on one workspace *)

InitClean ==
    /\ fs = EmptyFs
    /\ marker = TRUE
    /\ argv = <<"build.py", "clean">>
    /\ hasRequests = TRUE
    /\ hasAiohttp = TRUE
    /\ cleanLog = <<>>
    /\ Fresh

\* the same command line is started again in the directory the previous
\* process left behind
Rerun ==
    /\ pc = "done"
    /\ Len(cleanLog) < MaxRuns
    /\ pc' = "start"
    /\ phases' = <<>>
    /\ cmds' = <<>>
    /\ out' = <<>>
    /\ exitCode' = 0
    /\ UNCHANGED <<fs, marker, argv, hasRequests, hasAiohttp, cleanLog>>

NextClean ==
    \/ CreatePath(MaxNodes)
    \/ Main
    \/ CleanBuild
    \/ Rerun

SpecClean == InitClean /\ [][NextClean]_vars

----------------------------------------------------------------------------
(* Properties *)

PhaseNames == [i \in 1..Len(phases) |-> phases[i].phase]

IsSeqPrefix(a, b) == Len(a) <= Len(b) /\ \A i \in 1..Len(a) : a[i] = b[i]

Printed(lines) ==
    \E i \in 0..(Len(out) - Len(lines)) : SubSeq(out, i + 1, i + Len(lines)) = lines

\* a phase returned failure (or raised), or an external command failed
Failed ==
    \/ \E i \in 1..Len(phases) : ~phases[i].ok
    \/ \E i \in 1..Len(cmds) : ~cmds[i].ok

Ran(command) == \E i \in 1..Len(cmds) : cmds[i].cmd = command

RanOk(command, ok) == \E i \in 1..Len(cmds) : cmds[i] = [cmd |-> command, ok |-> ok]

Unrecognized == HasCommand(argv) /\ argv[2] \notin Recognized

\* C1: once a phase or an external command has reported failure, no later
\* phase and no later external command is executed: a failed command is
\* always the last one run, and after a failure neither the list of phases
\* nor the list of commands grows.
C1_ShortCircuit ==
    /\ [](\A i \in 1..(Len(cmds) - 1) : cmds[i].ok)
    /\ [](\A i \in 1..(Len(phases) - 1) : phases[i].ok)
    /\ [][Failed => (phases' = phases /\ cmds' = cmds)]_vars

\* `all` with a failing source-distribution build: the wheel build, install
\* and test never happen
C1_Witness ==
    /\ pc = "done"
    /\ HasCommand(argv) /\ argv[2] = "all"
    /\ RanOk("python setup.py sdist", FALSE)
    /\ ~Ran("python setup.py bdist_wheel")
    /\ PhaseNames = <<"clean", "check", "build">>

\* C2: without the marker file, whatever the argument, no phase runs, no
\* external command runs, nothing is deleted, and the process ends with a
\* non-zero status.
C2_NoMarker ==
    ~marker =>
        /\ phases = <<>>
        /\ cmds = <<>>
        /\ cleanLog = <<>>
        /\ pc \in {"start", "done"}
        /\ (pc = "done" => exitCode # 0)

C2_Witness ==
    /\ ~marker
    /\ pc = "done"
    /\ HasCommand(argv) /\ argv[2] = "all"
    /\ DOMAIN fs # {}
    /\ Printed(MarkerError)

\* C3: on every path with the marker present the process exits with
\* status 0, whatever the phases' outcomes.
C3_ExitZero == (marker /\ pc = "done") => exitCode = 0

\* C4 as stated: for every unrecognized command the list of valid commands
\* is printed, the exit status is 0 and no phase is executed.
C4_Original ==
    Unrecognized =>
        /\ phases = <<>> /\ cmds = <<>>
        /\ (pc = "done" => exitCode = 0 /\ Printed(UnknownCommand))

\* C4 amended: with the marker present, for every unrecognized command the
\* list of valid commands is printed, the exit status is 0 and no phase is
\* executed.
C4_UnknownCommand ==
    (marker /\ Unrecognized) =>
        /\ phases = <<>> /\ cmds = <<>> /\ cleanLog = <<>>
        /\ pc \in {"start", "done"}
        /\ (pc = "done" => exitCode = 0 /\ out = Banner \o UnknownCommand)

C4_Witness ==
    /\ marker
    /\ argv = <<"build.py", "deploy">>
    /\ pc = "done"
    /\ Printed(UnknownCommand)

\* the rows of the command-to-phase table
Row(av) ==
    IF ~HasCommand(av) THEN <<"clean", "check", "build">>
    ELSE CASE av[2] = "clean"   -> <<"clean">>
           [] av[2] = "build"   -> <<"clean", "check", "build">>
           [] av[2] = "install" -> <<"check", "install">>
           [] av[2] = "test"    -> <<"check", "test">>
           [] av[2] = "all"     -> <<"clean", "check", "build", "install", "test">>
           [] OTHER             -> <<>>

\* C5: with the marker present, the phases executed are always an initial
\* part of the command's row of the table, they are the whole row when the
\* process ends with every phase having succeeded, and the clean command
\* runs no external command.
C5_PhaseMapping ==
    marker =>
        /\ IsSeqPrefix(PhaseNames, Row(argv))
        /\ (pc = "done" /\ ~Failed => PhaseNames = Row(argv))
        /\ (HasCommand(argv) /\ argv[2] = "clean" => cmds = <<>>)

C5_Witness ==
    /\ marker
    /\ argv = <<"build.py", "all">>
    /\ pc = "done"
    /\ ~Failed
    /\ PhaseNames = <<"clean", "check", "build", "install", "test">>

\* C6: without an argument the install phase and the test phase are never
\* called, nor are their commands run.
C6_DefaultNoInstallTest ==
    ~HasCommand(argv) =>
        /\ \A i \in 1..Len(phases) : phases[i].phase \notin {"install", "test"}
        /\ ~Ran("pip install -e .")
        /\ ~Ran("python -m pytest tests/ -v")
        /\ pc \notin {"install", "test"}

C6_Witness ==
    /\ ~HasCommand(argv)
    /\ marker
    /\ pc = "done"
    /\ ~Failed
    /\ PhaseNames = <<"clean", "check", "build">>

\* C7: for every starting workspace, a run of clean that directly follows
\* another leaves the tree as the first left it, removes nothing and
\* signals no error.
C7_Idempotent ==
    \A i \in 2..Len(cleanLog) :
        /\ cleanLog[i].after = cleanLog[i - 1].after
        /\ cleanLog[i].calls = <<>>
        /\ ~cleanLog[i].raised

\* a path clean is to remove as a whole: one of the three top-level names,
\* or a directory named __pycache__
RemovedRoot(f, p) ==
    \/ Len(p) = 1 /\ \E i \in 1..Len(dirs_to_clean) : p[1] = dirs_to_clean[i]
    \/ Last(p) = PYCACHE /\ f[p] = "dir"

\* the paths that are neither such a path nor beneath one
Kept(f) ==
    {p \in DOMAIN f : \A k \in 1..Len(p) : ~RemovedRoot(f, SubSeq(p, 1, k))}

\* what exists under the three top-level names is a directory
TopAreDirs(f) ==
    \A i \in 1..Len(dirs_to_clean) :
        Exists(f, <<dirs_to_clean[i]>>) => IsDir(f, <<dirs_to_clean[i]>>)

\* C8: when build, dist and mcsrvstatus.egg-info are directories (where
\* present), clean completes and leaves exactly the paths that are neither
\* one of those three, nor a __pycache__ directory, nor beneath a removed
\* directory; every path it leaves is unchanged.
C8_CleanFrame ==
    \A i \in 1..Len(cleanLog) :
        LET e == cleanLog[i]
        IN  TopAreDirs(e.before) =>
                /\ ~e.raised
                /\ DOMAIN e.after = Kept(e.before)
                /\ \A p \in DOMAIN e.after : e.after[p] = e.before[p]

\* a top-level build directory with content and a nested cache directory
\* are removed, the sibling of the cache directory stays
C8_Witness ==
    /\ Len(cleanLog) = 1
    /\ LET e == cleanLog[1]
       IN  /\ IsDir(e.before, <<"build">>)
           /\ IsDir(e.before, <<"pkg", "__pycache__">>)
           /\ Exists(e.before, <<"pkg", "build">>)
           /\ DOMAIN e.after = {<<"pkg">>, <<"pkg", "build">>}
           /\ Len(e.calls) = 2

\* C9 as stated: with the marker present and no argument, the process runs
\* clean, dependency-check and build, prints the guidance, and ends without
\* installing or testing.
C9_Original ==
    (marker /\ ~HasCommand(argv) /\ pc = "done") =>
        /\ PhaseNames = <<"clean", "check", "build">>
        /\ Printed(Guidance)
        /\ ~Ran("pip install -e .") /\ ~Ran("python -m pytest tests/ -v")

\* C9 amended: with the marker present and no argument, the process runs
\* clean, dependency-check and build in this order, stopping at the first
\* failure; it prints the guidance exactly when all three were run and
\* succeeded, and it ends without installing or testing.
C9_DefaultSequence ==
    (marker /\ ~HasCommand(argv) /\ pc = "done") =>
        /\ IsSeqPrefix(PhaseNames, <<"clean", "check", "build">>)
        /\ (~Failed => PhaseNames = <<"clean", "check", "build">>)
        /\ (Printed(Guidance) <=> (~Failed /\ PhaseNames = <<"clean", "check", "build">>))
        /\ (Printed(Guidance) => out = Banner \o Guidance)
        /\ ~Ran("pip install -e .") /\ ~Ran("python -m pytest tests/ -v")
        /\ exitCode = (IF Len(phases) > 0 /\ ~phases[1].ok THEN 1 ELSE 0)

C9_Witness ==
    /\ marker
    /\ ~HasCommand(argv)
    /\ pc = "done"
    /\ Printed(Guidance)
    /\ RanOk("python setup.py bdist_wheel", TRUE)

\* the installer invocations made so far
Installs(lib) == SelectSeq(cmds, LAMBDA c : c.cmd = "pip install " \o lib)

CheckRan == \E i \in 1..Len(phases) : phases[i].phase = "check"

CheckResult == phases[CHOOSE i \in 1..Len(phases) : phases[i].phase = "check"].ok

\* C10: once dependency-check has run, the requests installer was invoked
\* (once) exactly if requests was absent; the aiohttp installer was invoked
\* (once) exactly if aiohttp was absent and the requests installer did not
\* fail; requests comes before aiohttp; the phase returned failure exactly
\* if an installer invocation failed; with both libraries present no
\* external command was run by it.
C10_CheckRequirements ==
    CheckRan =>
        LET req == Installs("requests")
            aio == Installs("aiohttp")
        IN  /\ Len(req) = (IF hasRequests THEN 0 ELSE 1)
            /\ Len(aio) = (IF hasAiohttp \/ (Len(req) = 1 /\ ~req[1].ok) THEN 0 ELSE 1)
            /\ (Len(req) = 1 /\ Len(aio) = 1 =>
                   \E i, j \in 1..Len(cmds) :
                       i < j /\ cmds[i] = req[1] /\ cmds[j] = aio[1])
            /\ (CheckResult <=> ((\A i \in 1..Len(req) : req[i].ok)
                                 /\ (\A i \in 1..Len(aio) : aio[i].ok)))
            /\ (hasRequests /\ hasAiohttp /\ phases[Len(phases)].phase = "check"
                   => cmds = <<>>)

C10_Witness ==
    /\ CheckRan
    /\ ~hasRequests /\ ~hasAiohttp
    /\ RanOk("pip install requests", TRUE)
    /\ RanOk("pip install aiohttp", FALSE)
    /\ ~CheckResult
    /\ pc = "done"

====
